---- MODULE Spec2Model ----
(***************************************************************************)
(* Model of the TensorBoard event-log tools of this repository:            *)
(*   src/read_results.py     _find_event_files, the two parsing backends,  *)
(*                           read_events and the read_results main         *)
(*   src/collect_max_tag.py  compute_max_for_run and the collector main    *)
(*                                                                         *)
(* An event file is a sequence of summary values.  The value at position j *)
(* belongs to the event with step j, so a step identifies one record of a  *)
(* file.  A value is a scalar (its simple_value is set) or a non-scalar    *)
(* summary (a histogram), whose simple_value reads as the protobuf default *)
(* 0.  wall_time takes part in no decision and is left out of the rows.    *)
(*                                                                         *)
(* Files are numbered by modification time (getmtime(f) = f, all times     *)
(* distinct) and run directories by name order; glob and listdir return    *)
(* them in any order.  The content of a file and the fate of a parse are   *)
(* drawn when a backend reads the file.                                    *)
(***************************************************************************)
EXTENDS Integers, Sequences, FiniteSets, TLC

\* ------------------------------------------------------------ bounds
\* files in the run directory of SpecRun / the path of SpecRead
MaxFiles == 3
\* summary values held by the files of one run directory, in total
MaxRecs == 3
\* scalar values of the requested tag range over 1..MaxValue
MaxValue == 3
\* entries of logs_root in Spec
MaxRuns == 2
\* files per run directory in Spec (they hold one summary value in total)
MaxRunFiles == 1

\* ------------------------------------------------------------ values
\* Python's None where a number is expected (values and steps are >= 0)
None == -1

TagT == "acc"
TagO == "loss"
\* the tags in sorted() order
TagList == <<TagT, TagO>>

BackendA == "tensorboard.EventAccumulator"
BackendB == "tensorflow.summary_iterator"

Range(s) == {s[j] : j \in 1..Len(s)}

\* the summary values an event file may hold
SummaryValues ==
    {[tag |-> TagT, kind |-> "simple_value", simple_value |-> v] : v \in 1..MaxValue}
      \cup {[tag |-> TagO, kind |-> "simple_value", simple_value |-> MaxValue + 1],
            [tag |-> TagT, kind |-> "histo", simple_value |-> 0]}

Contents(n) == UNION {[1..m -> SummaryValues] : m \in 0..n}

Perms(S) == {p \in [1..Cardinality(S) -> S] : \A a, b \in 1..Cardinality(S) : a # b => p[a] # p[b]}

\* ------------------------------------------------------------ _find_event_files
getmtime(f) == f

\* sorted(files, key=...): stable insertion of each element after the last
\* element whose key is not greater
RECURSIVE InsertByKey(_, _, _)
InsertByKey(s, x, kx) ==
    IF s = <<>> THEN <<x>>
    ELSE IF kx < s[Len(s)].key THEN Append(InsertByKey(SubSeq(s, 1, Len(s) - 1), x, kx), s[Len(s)])
    ELSE Append(s, x)

RECURSIVE SortKeyed(_)
SortKeyed(s) ==
    IF s = <<>> THEN <<>>
    ELSE InsertByKey(SortKeyed(SubSeq(s, 1, Len(s) - 1)), s[Len(s)], s[Len(s)].key)

sorted_by_mtime(files) ==
    LET keyed == [j \in 1..Len(files) |-> [key |-> getmtime(files[j]), val |-> files[j]]]
        s == SortKeyed(keyed)
    IN [j \in 1..Len(s) |-> s[j].val]

\* ------------------------------------------------------------ backends
RECURSIVE scalar_tags(_, _)
\* ea.Tags()['scalars']: the tags that hold scalars, in first-seen order
scalar_tags(c, n) ==
    IF n = 0 THEN <<>>
    ELSE LET prev == scalar_tags(c, n - 1)
         IN IF c[n].kind = "simple_value" /\ c[n].tag \notin Range(prev)
            THEN Append(prev, c[n].tag) ELSE prev

RECURSIVE Scalars(_, _, _)
\* ea.Scalars(tag): one row per scalar point of the tag, in file order
Scalars(c, tag, n) ==
    IF n = 0 THEN <<>>
    ELSE IF c[n].kind = "simple_value" /\ c[n].tag = tag
         THEN Append(Scalars(c, tag, n - 1), [tag |-> tag, step |-> n, value |-> c[n].simple_value])
         ELSE Scalars(c, tag, n - 1)

RECURSIVE RowsOfTags(_, _, _)
RowsOfTags(c, ts, n) ==
    IF n = 0 THEN <<>>
    ELSE RowsOfTags(c, ts, n - 1) \o Scalars(c, ts[n], Len(c))

read_with_event_accumulator(c, wanted_tags) ==
    LET available == scalar_tags(c, Len(c))
        tags == IF wanted_tags # <<>>
                THEN SelectSeq(available, LAMBDA t : t \in Range(wanted_tags))
                ELSE available
    IN [rows |-> RowsOfTags(c, tags, Len(tags)), available |-> available]

\* hasattr(v, "simple_value"): a protobuf message has every field of its
\* type as an attribute, set or not
hasattr_simple_value(v) == TRUE

RECURSIVE IterRows(_, _, _)
IterRows(c, wanted_tags, n) ==
    IF n = 0 THEN <<>>
    ELSE LET prev == IterRows(c, wanted_tags, n - 1)
         IN IF wanted_tags # <<>> /\ c[n].tag \notin Range(wanted_tags) THEN prev
            ELSE IF hasattr_simple_value(c[n])
                 THEN Append(prev, [tag |-> c[n].tag, step |-> n, value |-> c[n].simple_value])
                 ELSE prev

sorted_tags(S) == SelectSeq(TagList, LAMBDA t : t \in S)

read_with_tf_summary_iterator(c, wanted_tags) ==
    [rows |-> IterRows(c, wanted_tags, Len(c)),
     available |-> sorted_tags({c[j].tag : j \in 1..Len(c)})]

\* ------------------------------------------------------------ state
VARIABLES
    tbInstalled,   \* tensorboard can be imported
    tfInstalled,   \* tensorflow can be imported
    latest,        \* args.latest / latest_only
    tags,          \* the tags handed to read_events (<<>>: None)
    logs_root,     \* whether logs_root is a directory, and os.listdir(logs_root)
    pc,            \* position of the running program
    subdirs, k,    \* main: the run directories and the index of the current one
    results,       \* main: the summaries collected
    infos,         \* stdout: the runs of the "[Info] No data" lines
    csv,           \* the rows written to the CSV
    located,       \* what _find_event_files returned
    event_files, i,\* the selected files and the index of the current one
    max_value, max_step, max_file,
    ret,           \* compute_max_for_run's result: <<>> (None) or <<summary>>
    skipWarns,     \* stdout: the files of the "[Warn] Skip file" lines of this run
    rpc,           \* position inside read_events
    rows, available, backend,   \* what read_events returns
    exc,           \* the exception in flight
    stderr,        \* "[Warn] EventAccumulator failed" lines of this call
    attempts,      \* the backends this call attempted, in order
    content,       \* the content of the file a backend has read
    budget,        \* summary values the unread files of this run may still hold
    reads,         \* per file handed to read_events in this run: what came back
    rets,          \* per run visited: what compute_max_for_run returned
    all_rows, union_tags, used_backend   \* read_results main

vars == <<tbInstalled, tfInstalled, latest, tags, logs_root, pc, subdirs, k, results,
          infos, csv, located, event_files, i, max_value, max_step, max_file, ret,
          skipWarns, rpc, rows, available, backend, exc, stderr, attempts, content,
          budget, reads, rets, all_rows, union_tags, used_backend>>

envVars == <<tbInstalled, tfInstalled, latest, tags, logs_root>>
mainVars == <<subdirs, k, results, infos, csv, rets>>
runVars == <<located, event_files, i, max_value, max_step, max_file, ret, skipWarns, budget, reads>>
callVars == <<rpc, rows, available, backend, exc, stderr, attempts, content>>
rrVars == <<all_rows, union_tags, used_backend>>

\* ------------------------------------------------------------ initial states
\* os.listdir(logs_root): distinct names, directories or not, in any order
RootListings(n) ==
    UNION {UNION {{[j \in 1..Cardinality(S) |-> [name |-> p[j], isDir |-> d[p[j]]]]
                     : d \in [S -> BOOLEAN]} : p \in Perms(S)} : S \in SUBSET (1..n)}

Roots == {[isdir |-> FALSE, listing |-> <<>>]}
           \cup {[isdir |-> TRUE, listing |-> l] : l \in RootListings(MaxRuns)}

\* a logs_root with the single run directory 1
OneRunRoots == {[isdir |-> FALSE, listing |-> <<>>],
                [isdir |-> TRUE, listing |-> <<[name |-> 1, isDir |-> TRUE]>>]}

InitLocals ==
    /\ subdirs = <<>> /\ k = 0 /\ results = <<>> /\ infos = <<>> /\ csv = <<>> /\ rets = <<>>
    /\ located = <<>> /\ event_files = <<>> /\ i = 0
    /\ max_value = None /\ max_step = None /\ max_file = None
    /\ ret = <<>> /\ skipWarns = <<>> /\ budget = 0 /\ reads = <<>>
    /\ rpc = "idle" /\ rows = <<>> /\ available = <<>> /\ backend = "" /\ exc = "none"
    /\ stderr = 0 /\ attempts = <<>> /\ content = <<>>
    /\ all_rows = <<>> /\ union_tags = {} /\ used_backend = ""

\* collect_max_tag.py: main() about to run with --tag acc
InitCollect(roots) ==
    /\ tbInstalled \in BOOLEAN /\ tfInstalled \in BOOLEAN /\ latest \in BOOLEAN
    /\ tags = <<TagT>>
    /\ logs_root \in roots
    /\ pc = "main"
    /\ InitLocals

\* ------------------------------------------------------------ read_events
\* the warning of line 82 left out
stderr_write_nothing(n) == n

\* line 82: sys.stderr.write("[Warn] EventAccumulator failed ...")
stderr_write(n) == n + 1

\* line 75: the EventAccumulator attempt
TryA ==
    /\ rpc = "tryA"
    /\ attempts' = Append(attempts, "A")
    /\ \/ /\ tbInstalled                       \* lines 75-77: rows served by A
          /\ \E c \in Contents(budget) :
                LET r == read_with_event_accumulator(c, tags)
                IN /\ rows' = r.rows /\ available' = r.available
                   /\ content' = c /\ budget' = budget - Len(c)
          /\ backend' = BackendA /\ rpc' = "returned"
          /\ UNCHANGED <<exc, stderr>>
       \/ /\ ~tbInstalled                      \* lines 78-79: ImportError, pass
          /\ rpc' = "tryB"
          /\ UNCHANGED <<rows, available, backend, exc, stderr, content, budget>>
       \/ /\ tbInstalled                       \* lines 80-82: A raised on this file
          /\ stderr' = stderr_write(stderr)
          /\ rpc' = "tryB"
          /\ UNCHANGED <<rows, available, backend, exc, content, budget>>
    /\ UNCHANGED <<envVars, pc, mainVars, located, event_files, i, max_value, max_step,
                   max_file, ret, skipWarns, reads, rrVars>>

\* line 85: the summary_iterator attempt
TryB ==
    /\ rpc = "tryB"
    /\ attempts' = Append(attempts, "B")
    /\ \/ /\ tfInstalled                       \* lines 85-87: rows served by B
          /\ \E c \in Contents(budget) :
                LET r == read_with_tf_summary_iterator(c, tags)
                IN /\ rows' = r.rows /\ available' = r.available
                   /\ content' = c /\ budget' = budget - Len(c)
          /\ backend' = BackendB /\ rpc' = "returned"
          /\ UNCHANGED exc
       \/ /\ ~tfInstalled                      \* lines 88-92: ImportError
          /\ exc' = "unavailable" /\ rpc' = "raised"
          /\ UNCHANGED <<rows, available, backend, content, budget>>
       \/ /\ tfInstalled                       \* lines 93-94: B raised on this file
          /\ exc' = "parse" /\ rpc' = "raised"
          /\ UNCHANGED <<rows, available, backend, content, budget>>
    /\ UNCHANGED <<envVars, pc, mainVars, located, event_files, i, max_value, max_step,
                   max_file, ret, skipWarns, reads, stderr, rrVars>>

\* ------------------------------------------------------------ compute_max_for_run
\* the oldest file instead of the newest
select_files_first(files, latest_only) ==
    IF latest_only /\ Len(files) > 1 THEN <<files[1]>> ELSE files

\* lines 28-29
select_files(files, latest_only) ==
    IF latest_only /\ Len(files) > 1 THEN <<files[Len(files)]>> ELSE files

\* lines 25-33
CM_Find(maxFiles, recs) ==
    /\ pc = "cm_find"
    /\ \E n \in 0..maxFiles : \E glob \in Perms(1..n) :
          LET files == sorted_by_mtime(glob)
          IN /\ located' = files
             /\ IF files = <<>>
                THEN /\ ret' = <<>> /\ pc' = "cm_ret"
                     /\ UNCHANGED <<event_files, i>>
                ELSE /\ event_files' = select_files(files, latest)
                     /\ i' = 1 /\ pc' = "cm_loop"
                     /\ UNCHANGED ret
    /\ max_value' = None /\ max_step' = None /\ max_file' = None
    /\ budget' = recs /\ reads' = <<>> /\ skipWarns' = <<>>
    /\ UNCHANGED <<envVars, mainVars, callVars, rrVars>>

\* line 37: the call of read_events
CM_Read ==
    /\ pc = "cm_loop" /\ i <= Len(event_files)
    /\ pc' = "cm_read" /\ rpc' = "tryA"
    /\ attempts' = <<>> /\ stderr' = 0
    /\ UNCHANGED <<envVars, mainVars, runVars, rows, available, backend, exc, content, rrVars>>

\* >= for >: the last record attaining the maximum wins
is_new_max_ge(v, m) == (m = None) \/ (v >= m)

\* line 46
is_new_max(v, m) == (m = None) \/ (v > m)

\* lines 42-49: one row of the scan
scan_row(m, r, f) ==
    IF r.value = None THEN m
    ELSE IF is_new_max(r.value, m.max_value)
         THEN [max_value |-> r.value, max_step |-> r.step, max_file |-> f]
         ELSE m

RECURSIVE scan_rows(_, _, _, _)
scan_rows(m, rs, f, n) ==
    IF n = 0 THEN m ELSE scan_row(scan_rows(m, rs, f, n - 1), rs[n], f)

\* lines 42-49: read_events returned
CM_Scan ==
    /\ pc = "cm_read" /\ rpc = "returned"
    /\ LET f == event_files[i]
           m == scan_rows([max_value |-> max_value, max_step |-> max_step, max_file |-> max_file],
                          rows, f, Len(rows))
       IN /\ max_value' = m.max_value /\ max_step' = m.max_step /\ max_file' = m.max_file
          /\ reads' = Append(reads, [file |-> f, ok |-> TRUE, rows |-> rows])
    /\ i' = i + 1 /\ pc' = "cm_loop"
    /\ rpc' = "idle" /\ rows' = <<>> /\ available' = <<>> /\ backend' = "" /\ content' = <<>>
    /\ stderr' = 0 /\ attempts' = <<>>
    /\ UNCHANGED <<envVars, mainVars, located, event_files, ret, skipWarns, budget, exc, rrVars>>

\* no try/except around read_events: the exception ends the program
CM_Except_uncaught ==
    /\ pc = "cm_read" /\ rpc = "raised"
    /\ pc' = "crashed"
    /\ UNCHANGED <<envVars, mainVars, runVars, callVars, rrVars>>

\* line 40: print("[Warn] Skip file due to parse error ...")
print_skip(lines, f) == Append(lines, f)

\* lines 38-41: read_events raised
CM_Except ==
    /\ pc = "cm_read" /\ rpc = "raised"
    /\ skipWarns' = print_skip(skipWarns, event_files[i])
    /\ reads' = Append(reads, [file |-> event_files[i], ok |-> FALSE, rows |-> <<>>])
    /\ i' = i + 1 /\ pc' = "cm_loop"
    /\ rpc' = "idle" /\ exc' = "none" /\ stderr' = 0 /\ attempts' = <<>>
    /\ UNCHANGED <<envVars, mainVars, located, event_files, max_value, max_step, max_file,
                   ret, budget, rows, available, backend, content, rrVars>>

\* the "if max_value is None: return None" of lines 51-52 left out
summary_unchecked(run, mv, ms, mf) ==
    <<[run |-> run, max_value |-> mv, max_step |-> ms, max_file |-> mf]>>

\* lines 51-59
summary(run, mv, ms, mf) ==
    IF mv = None THEN <<>>
    ELSE <<[run |-> run, max_value |-> mv, max_step |-> ms, max_file |-> mf]>>

CM_Return ==
    /\ pc = "cm_loop" /\ i > Len(event_files)
    /\ ret' = summary(subdirs[k], max_value, max_step, max_file)
    /\ pc' = "cm_ret"
    /\ UNCHANGED <<envVars, mainVars, located, event_files, i, max_value, max_step, max_file,
                   skipWarns, budget, reads, callVars, rrVars>>

\* ------------------------------------------------------------ collect_max_tag main
\* os.listdir order, sorted() left out
list_subdirs_unsorted(listing) ==
    LET dirs == SelectSeq(listing, LAMBDA e : e.isDir)
    IN [j \in 1..Len(dirs) |-> dirs[j].name]

\* lines 76-77
list_subdirs(listing) ==
    LET keyed == [j \in 1..Len(listing) |-> [key |-> listing[j].name, val |-> listing[j]]]
        s == SortKeyed(keyed)
        dirs == SelectSeq(s, LAMBDA e : e.val.isDir)
    IN [j \in 1..Len(dirs) |-> dirs[j].key]

\* lines 73-79
Main_Start ==
    /\ pc = "main"
    /\ IF ~logs_root.isdir
       THEN pc' = "exit_fail" /\ UNCHANGED <<subdirs, k>>
       ELSE subdirs' = list_subdirs(logs_root.listing) /\ k' = 1 /\ pc' = "loop"
    /\ UNCHANGED <<envVars, results, infos, csv, rets, runVars, callVars, rrVars>>

\* lines 80-81: the call of compute_max_for_run
Main_Call ==
    /\ pc = "loop" /\ k <= Len(subdirs)
    /\ pc' = "cm_find"
    /\ UNCHANGED <<envVars, mainVars, runVars, callVars, rrVars>>

\* lines 82-85; the locals of compute_max_for_run are gone
Main_Handle ==
    /\ pc = "cm_ret"
    /\ IF ret = <<>>
       THEN infos' = Append(infos, subdirs[k]) /\ UNCHANGED results
       ELSE results' = results \o ret /\ UNCHANGED infos
    /\ rets' = Append(rets, [run |-> subdirs[k], ret |-> ret])
    /\ k' = k + 1 /\ pc' = "loop"
    /\ located' = <<>> /\ event_files' = <<>> /\ i' = 0
    /\ max_value' = None /\ max_step' = None /\ max_file' = None
    /\ ret' = <<>> /\ skipWarns' = <<>> /\ budget' = 0 /\ reads' = <<>>
    /\ UNCHANGED <<envVars, subdirs, csv, callVars, rrVars>>

\* line 100
sort_by_run(rs) ==
    LET keyed == [j \in 1..Len(rs) |-> [key |-> rs[j].run, val |-> rs[j]]]
        s == SortKeyed(keyed)
    IN [j \in 1..Len(s) |-> s[j].val]

\* lines 87-111
Main_Finish ==
    /\ pc = "loop" /\ k > Len(subdirs)
    /\ IF results = <<>>
       THEN UNCHANGED csv
       ELSE \E pandas \in BOOLEAN : csv' = IF pandas THEN sort_by_run(results) ELSE results
    /\ pc' = "done"
    /\ UNCHANGED <<envVars, subdirs, k, results, infos, rets, runVars, callVars, rrVars>>

\* ------------------------------------------------------------ read_results main
\* lines 111-121: the path is missing, a file, or a directory
RR_Find(maxFiles, recs) ==
    /\ pc = "rr_main"
    /\ \/ /\ exc' = "notfound" /\ pc' = "crashed"          \* line 18
          /\ UNCHANGED <<located, event_files, i>>
       \/ /\ located' = <<1>> /\ event_files' = <<1>>       \* line 16
          /\ i' = 1 /\ pc' = "rr_loop"
          /\ UNCHANGED exc
       \/ /\ \E n \in 0..maxFiles : \E glob \in Perms(1..n) :   \* lines 12-14
                LET files == sorted_by_mtime(glob)
                IN /\ located' = files
                   /\ IF files = <<>>
                      THEN pc' = "exit1" /\ UNCHANGED <<event_files, i>>
                      ELSE /\ event_files' = select_files(files, latest)
                           /\ i' = 1 /\ pc' = "rr_loop"
          /\ UNCHANGED exc
    /\ budget' = recs /\ reads' = <<>>
    /\ all_rows' = <<>> /\ union_tags' = {} /\ used_backend' = ""
    /\ UNCHANGED <<envVars, mainVars, max_value, max_step, max_file, ret, skipWarns,
                   rpc, rows, available, backend, stderr, attempts, content>>

\* line 124: the call of read_events
RR_Read ==
    /\ pc = "rr_loop" /\ i <= Len(event_files)
    /\ pc' = "rr_read" /\ rpc' = "tryA"
    /\ attempts' = <<>> /\ stderr' = 0
    /\ UNCHANGED <<envVars, mainVars, runVars, rows, available, backend, exc, content, rrVars>>

\* lines 128-129
with_file(rs, f) ==
    [j \in 1..Len(rs) |-> [tag |-> rs[j].tag, step |-> rs[j].step, value |-> rs[j].value, file |-> f]]

\* lines 125-130: read_events returned
RR_Collect ==
    /\ pc = "rr_read" /\ rpc = "returned"
    /\ used_backend' = IF used_backend # "" THEN used_backend ELSE backend
    /\ union_tags' = union_tags \cup Range(available)
    /\ all_rows' = all_rows \o with_file(rows, event_files[i])
    /\ reads' = Append(reads, [file |-> event_files[i], ok |-> TRUE, rows |-> rows])
    /\ i' = i + 1 /\ pc' = "rr_loop"
    /\ rpc' = "idle" /\ rows' = <<>> /\ available' = <<>> /\ backend' = "" /\ content' = <<>>
    /\ stderr' = 0 /\ attempts' = <<>>
    /\ UNCHANGED <<envVars, mainVars, located, event_files, max_value, max_step, max_file,
                   ret, skipWarns, budget, exc>>

\* line 124: read_events raised and nothing in main catches it
RR_Raise ==
    /\ pc = "rr_read" /\ rpc = "raised"
    /\ pc' = "crashed"
    /\ UNCHANGED <<envVars, mainVars, runVars, callVars, rrVars>>

TagIndex(t) == CHOOSE j \in 1..Len(TagList) : TagList[j] = t

\* line 151: sort_values(by=["tag", "step"])
sort_by_tag_step(rs) ==
    LET keyed == [j \in 1..Len(rs) |->
                     [key |-> TagIndex(rs[j].tag) * (Len(rs) + MaxRecs + 1) + rs[j].step,
                      val |-> rs[j]]]
        s == SortKeyed(keyed)
    IN [j \in 1..Len(s) |-> s[j].val]

\* lines 132-172: list the tags, report that nothing was found, or export
RR_Finish ==
    /\ pc = "rr_loop" /\ i > Len(event_files)
    /\ \E list_tags \in BOOLEAN, out_csv \in BOOLEAN :
          IF list_tags THEN pc' = "done" /\ UNCHANGED csv
          ELSE IF all_rows = <<>> THEN pc' = "exit0" /\ UNCHANGED csv
          ELSE /\ pc' = "done"
               /\ csv' = IF out_csv THEN sort_by_tag_step(all_rows) ELSE csv
    /\ UNCHANGED <<envVars, subdirs, k, results, infos, rets, runVars, callVars, rrVars>>

\* ------------------------------------------------------------ specifications
\* the collector over the run directories of logs_root
Init == InitCollect(Roots)

Next ==
    \/ Main_Start \/ Main_Call \/ CM_Find(MaxRunFiles, 1) \/ CM_Read \/ TryA \/ TryB
    \/ CM_Scan \/ CM_Except \/ CM_Return \/ Main_Handle \/ Main_Finish

Spec == Init /\ [][Next]_vars

\* the collector over one run directory
InitRun == InitCollect(OneRunRoots)

NextRun ==
    \/ Main_Start \/ Main_Call \/ CM_Find(MaxFiles, MaxRecs) \/ CM_Read \/ TryA \/ TryB
    \/ CM_Scan \/ CM_Except \/ CM_Return \/ Main_Handle \/ Main_Finish

SpecRun == InitRun /\ [][NextRun]_vars

\* read_results.py: main() about to run
InitRead ==
    /\ tbInstalled \in BOOLEAN /\ tfInstalled \in BOOLEAN /\ latest \in BOOLEAN
    /\ tags \in {<<>>, <<TagT>>, <<TagT, TagO>>}
    /\ logs_root = [isdir |-> FALSE, listing |-> <<>>]
    /\ pc = "rr_main"
    /\ InitLocals

NextRead ==
    \/ RR_Find(MaxFiles, MaxRecs) \/ RR_Read \/ TryA \/ TryB
    \/ RR_Collect \/ RR_Raise \/ RR_Finish

SpecRead == InitRead /\ [][NextRead]_vars

\* ------------------------------------------------------------ properties
\* the rows of the files that parsed, in processing order, each with its file
RECURSIVE Pooled(_, _)
Pooled(rd, n) ==
    IF n = 0 THEN <<>>
    ELSE Pooled(rd, n - 1) \o
         [j \in 1..Len(rd[n].rows) |->
            [value |-> rd[n].rows[j].value, step |-> rd[n].rows[j].step, file |-> rd[n].file]]

PooledRows == SelectSeq(Pooled(reads, Len(reads)), LAMBDA r : r.value # None)

FilesOf(rd) == [j \in 1..Len(rd) |-> rd[j].file]

Ascending(s) == \A a, b \in 1..Len(s) : a < b => s[a] < s[b]

Newest(files) == CHOOSE f \in Range(files) : \A g \in Range(files) : getmtime(g) <= getmtime(f)

InRun == pc \in {"cm_loop", "cm_read", "cm_ret"}

\* C1: when compute_max_for_run returns a summary, max_value is the maximum
\* value over the records of the tag pooled over every selected file that
\* parsed, and max_step and max_file are those of the first record attaining
\* it, files taken oldest-modified first and records in file order.
C1_FirstMaximum ==
    (pc = "cm_ret" /\ ret # <<>>) =>
        /\ Ascending([j \in 1..Len(located) |-> getmtime(located[j])])
        /\ FilesOf(reads) = event_files
        /\ Ascending([j \in 1..Len(reads) |-> getmtime(reads[j].file)])
        /\ \A j \in 1..Len(PooledRows) : PooledRows[j].value <= ret[1].max_value
        /\ \E j \in 1..Len(PooledRows) :
              /\ PooledRows[j].value = ret[1].max_value
              /\ \A h \in 1..(j - 1) : PooledRows[h].value < ret[1].max_value
              /\ ret[1].max_step = PooledRows[j].step
              /\ ret[1].max_file = PooledRows[j].file

\* an earlier and a later file both attain the maximum: the earlier one is reported
C1_Witness ==
    /\ pc = "cm_ret" /\ ret # <<>>
    /\ Len(reads) = 2 /\ reads[1].ok /\ reads[2].ok
    /\ \E a \in 1..Len(reads[1].rows), b \in 1..Len(reads[2].rows) :
          /\ reads[1].rows[a].value = MaxValue /\ reads[2].rows[b].value = MaxValue
          /\ a > 1
    /\ ret[1].max_file = reads[1].file

\* C2: a file on which read_events fails never aborts the aggregation: it is
\* skipped with one warning, every other selected file is still read, and the
\* result is the maximum over the files that parsed.
C2_SkipAndContinue ==
    /\ pc # "crashed"
    /\ InRun =>
        /\ FilesOf(reads) = SubSeq(event_files, 1, Len(reads))
        /\ skipWarns = FilesOf(SelectSeq(reads, LAMBDA r : ~r.ok))
    /\ pc = "cm_ret" =>
        /\ FilesOf(reads) = event_files
        /\ IF PooledRows = <<>> THEN ret = <<>>
           ELSE /\ ret # <<>>
                /\ \A j \in 1..Len(PooledRows) : PooledRows[j].value <= ret[1].max_value
                /\ \E j \in 1..Len(PooledRows) : PooledRows[j].value = ret[1].max_value

\* the first and the last of three files fail, the middle one gives the maximum
C2_Witness ==
    /\ pc = "cm_ret" /\ Len(reads) = 3
    /\ ~reads[1].ok /\ reads[2].ok /\ ~reads[3].ok
    /\ skipWarns = <<reads[1].file, reads[3].file>>
    /\ ret # <<>> /\ ret[1].max_value = MaxValue /\ ret[1].max_file = reads[2].file

\* C3: inside one read_events call A is attempted first, each backend at most
\* once; rows served by A mean B was never attempted; B is attempted without a
\* warning when tensorboard is missing and after exactly one warning when A
\* failed on the file; the call ends with rows from A, rows from B, the
\* backend-unavailable error or the parse error.
C3_Negotiation ==
    /\ attempts \in {<<>>, <<"A">>, <<"A", "B">>}
    /\ rpc = "idle" => attempts = <<>>
    /\ rpc = "tryA" => attempts = <<>> /\ stderr = 0
    /\ rpc = "tryB" => attempts = <<"A">>
    /\ attempts = <<"A">> => stderr = (IF rpc = "tryB" /\ tbInstalled THEN 1 ELSE 0)
    /\ attempts = <<"A", "B">> => stderr = (IF tbInstalled THEN 1 ELSE 0)
    /\ rpc = "returned" =>
        /\ exc = "none"
        /\ \/ backend = BackendA /\ attempts = <<"A">> /\ stderr = 0
           \/ backend = BackendB /\ attempts = <<"A", "B">>
    /\ rpc = "raised" => attempts = <<"A", "B">> /\ exc \in {"unavailable", "parse"}
    /\ rpc \in {"idle", "tryA", "tryB", "returned", "raised"}

\* A failed on the file, one warning was written, and B served the rows
C3_Witness ==
    /\ rpc = "returned" /\ backend = BackendB /\ tbInstalled /\ stderr = 1
    /\ attempts = <<"A", "B">> /\ rows # <<>>

\* C4: in the batch read of read_results a file that fails to parse is
\* skipped and the remaining files are still read: a parse failure with
\* files left to read never ends the program.
C4_BatchSkipsFailingFile ==
    (exc = "parse" /\ i < Len(event_files)) => pc # "crashed"

\* C5: the backend-unavailable failure of read_events goes to the top and ends
\* the program; no caller absorbs it.
C5_UnavailableIsFatal ==
    [][(rpc = "raised" /\ exc = "unavailable") => (pc' = "crashed")]_vars

\* C6: with latest_only and more than one file located, exactly the
\* most-recently-modified file is read and no other; otherwise every located
\* file is read.
C6_LatestOnly ==
    /\ InRun =>
        /\ Ascending([j \in 1..Len(located) |-> getmtime(located[j])])
        /\ IF latest /\ Len(located) > 1
           THEN event_files = <<Newest(located)>>
           ELSE event_files = located
        /\ \A j \in 1..Len(reads) : reads[j].file = event_files[j]
    /\ pc = "cm_ret" /\ located # <<>> => FilesOf(reads) = event_files

\* three files located, only the newest read
C6_Witness ==
    /\ pc = "cm_ret" /\ latest /\ Len(located) = 3
    /\ Len(reads) = 1 /\ reads[1].file = 3 /\ reads[1].ok
    /\ ret # <<>> /\ ret[1].max_file = 3

\* C7: compute_max_for_run never raises, and it returns None exactly when no
\* record with a value for the tag came out of the selected files.
C7_AbsentIffNoRecords ==
    /\ pc # "crashed"
    /\ pc = "cm_ret" => (ret = <<>> <=> PooledRows = <<>>)

\* one file parsed and held no record of the tag, another was skipped
C7_Witness ==
    /\ pc = "cm_ret" /\ ret = <<>>
    /\ Len(reads) = 2 /\ reads[1].ok /\ reads[1].rows = <<>> /\ ~reads[2].ok

AbsentRets == SelectSeq(rets, LAMBDA r : r.ret = <<>>)
PresentRets == SelectSeq(rets, LAMBDA r : r.ret # <<>>)

\* C8: the collector visits every immediate subdirectory once, in ascending
\* name order; results holds the summary of each run that gave one, in that
\* order, and each run that gave none has one "[Info]" line and no row; with
\* a logs_root that is no directory nothing is processed.
C8_OneRowPerRun ==
    /\ ~logs_root.isdir =>
        /\ pc \in {"main", "exit_fail"}
        /\ rets = <<>> /\ results = <<>> /\ infos = <<>> /\ located = <<>> /\ rpc = "idle"
    /\ (logs_root.isdir /\ pc # "main") =>
        /\ Range(subdirs) = {e.name : e \in {x \in Range(logs_root.listing) : x.isDir}}
        /\ Ascending(subdirs)
        /\ [j \in 1..Len(rets) |-> rets[j].run] = SubSeq(subdirs, 1, Len(rets))
        /\ Len(rets) = k - 1
        /\ results = [j \in 1..Len(PresentRets) |-> PresentRets[j].ret[1]]
        /\ \A j \in 1..Len(results) : results[j].run = PresentRets[j].run
        /\ infos = [j \in 1..Len(AbsentRets) |-> AbsentRets[j].run]
        /\ pc = "done" => Len(rets) = Len(subdirs)

\* listdir gives run 2 before run 1; run 1 has a maximum, run 2 has no data
C8_Witness ==
    /\ pc = "done" /\ logs_root.isdir
    /\ Len(logs_root.listing) = 2 /\ logs_root.listing[1].name = 2
    /\ subdirs = <<1, 2>>
    /\ Len(results) = 1 /\ results[1].run = 1 /\ results[1].max_value = MaxValue
    /\ results[1].max_step = 1
    /\ infos = <<2>> /\ csv = results

BagOf(s) == [r \in Range(s) |-> Cardinality({j \in 1..Len(s) : s[j] = r})]

\* C9: a file served by summary_iterator gives the records and the available
\* tags that EventAccumulator gives for the same file and filter.
C9_BackendsAgree ==
    (rpc = "returned" /\ backend = BackendB) =>
        LET a == read_with_event_accumulator(content, tags)
        IN /\ BagOf(rows) = BagOf(a.rows)
           /\ Range(available) = Range(a.available)

\* C10: read_events reports that neither tensorboard nor tensorflow is
\* available only when neither can be imported.
C10_UnavailableMeansNeither ==
    exc = "unavailable" => (~tbInstalled /\ ~tfInstalled)

====
